---- MODULE Spec2Model ----
(***************************************************************************)
(* Multi-objective multi-fidelity (MOMF) test suite: the problem classes   *)
(* of base.py, RE_problems.py, DTLZ_problems.py and MOMF_problems.py and   *)
(* the error functions of wang_error_functions.py.                         *)
(*                                                                         *)
(* Numbers.  A sample value is an integer count of 1/XUnit.  Every value   *)
(* the code computes by +, -, *, / is an exact rational <<n, d>> in lowest *)
(* terms (d > 0): the model states the arithmetic over the reals, not the  *)
(* rounding of float64.  cos and sin are the host environment's: they are  *)
(* tabulated on the sample points where their value is rational (CosHalfPi,*)
(* SinHalfPi, Cos20Pi).  A closed form the model does not compute (the RE  *)
(* polynomials, a sum of cosines of a noise function, exp) is kept as a    *)
(* term that names the formula and its operands.                           *)
(***************************************************************************)
EXTENDS Integers, Sequences, FiniteSets, TLC

VARIABLES objs, selected, call

vars == <<objs, selected, call>>

(* -------- bounds of the model -------- *)
MaxRows == 2
MaxObj == 3
MaxK == 2
MaxCols == 2

XUnit == 10^4

(* -------- exact rational arithmetic -------- *)
Abs(n) == IF n < 0 THEN -n ELSE n

RECURSIVE GCD(_, _)
GCD(a, b) == IF b = 0 THEN a ELSE GCD(b, a % b)

(* n/d with the common factor c taken out and the sign in the numerator *)
Reduced(n, d, c) == IF d < 0 THEN <<-(n \div c), -(d \div c)>> ELSE <<n \div c, d \div c>>

Rat(n, d) == Reduced(n, d, GCD(Abs(n), Abs(d)))

RInt(n) == <<n, 1>>

(* a + b over the common denominator l *)
AddOver(a, b, l) == Rat(a[1] * (l \div a[2]) + b[1] * (l \div b[2]), l)

RAdd(a, b) == AddOver(a, b, (a[2] \div GCD(a[2], b[2])) * b[2])

RNeg(a) == <<-a[1], a[2]>>

RSub(a, b) == RAdd(a, RNeg(b))

(* a * b with the cross factors c1 and c2 taken out first *)
MulOver(a, b, c1, c2) ==
    Rat((a[1] \div c1) * (b[1] \div c2), (a[2] \div c2) * (b[2] \div c1))

RMul(a, b) == MulOver(a, b, GCD(Abs(a[1]), b[2]), GCD(Abs(b[1]), a[2]))

RDiv(a, b) == RMul(a, Rat(b[2], b[1]))

RLe(a, b) == a[1] * b[2] <= b[1] * a[2]

RAbs(a) == <<Abs(a[1]), a[2]>>

RECURSIVE RPow(_, _)
RPow(a, n) == IF n = 0 THEN RInt(1) ELSE RMul(a, RPow(a, n - 1))

RECURSIVE RSum(_)
RSum(q) == IF q = << >> THEN RInt(0) ELSE RAdd(q[1], RSum(Tail(q)))

RECURSIVE RProd(_)
RProd(q) == IF q = << >> THEN RInt(1) ELSE RMul(q[1], RProd(Tail(q)))

(* a sample value as a rational *)
XRat(v) == Rat(v, XUnit)

(* -------- the classes -------- *)
REClasses == {"RE2_4_1", "RE3_5_4", "RE3_4_7"}
DTLZClasses == {"DTLZ2", "InvertedDTLZ2"}
MFClasses == {"MOMF2_4_1a", "MOMF2_4_1b", "MOMF2_4_1c", "MOMF2_4_1d",
              "MOMF3_4_1", "MOMF3_5_1", "MOMF3_7_1", "MOMF3_7_2"}

(* the problem-definition parent of a class (itself for a problem class) *)
ProblemOf(cls) ==
    CASE cls \in {"MOMF2_4_1a", "MOMF2_4_1b", "MOMF2_4_1c", "MOMF2_4_1d"} -> "RE2_4_1"
      [] cls = "MOMF3_4_1" -> "RE3_4_7"
      [] cls = "MOMF3_5_1" -> "RE3_5_4"
      [] cls = "MOMF3_7_1" -> "DTLZ2"
      [] cls = "MOMF3_7_2" -> "InvertedDTLZ2"
      [] OTHER -> cls

(* RE2_4_1: a = F/sigma = 10/10 = 1; sqrt(2 * a) to the sample resolution *)
RE2_4_1_a == Rat(10, 10)
Sqrt2a == 14142
RE2_4_1_vars ==
    LET a == (RE2_4_1_a[1] * XUnit) \div RE2_4_1_a[2]
    IN  << <<a, 3 * a>>, <<Sqrt2a, 3 * a>>, <<Sqrt2a, 3 * a>>, <<a, 3 * a>> >>
RE3_5_4_vars == [j \in 1..5 |-> <<1 * XUnit, 3 * XUnit>>]
RE3_4_7_vars == [j \in 1..4 |-> <<0, 1 * XUnit>>]

RE_n_obj(p) == CASE p = "RE2_4_1" -> 2 [] p = "RE3_5_4" -> 3 [] p = "RE3_4_7" -> 3

RE_vars(p) ==
    CASE p = "RE2_4_1" -> RE2_4_1_vars
      [] p = "RE3_5_4" -> RE3_5_4_vars
      [] p = "RE3_4_7" -> RE3_4_7_vars

(* the error functions of wang_error_functions.py, as function objects
   numbered in definition order; FnName is each one's __name__ *)
e_r1 == 1
e_r2 == 2
e_r3 == 3
e_r4 == 4
e_s1 == 5
e_s2 == 6
e_s3 == 7
e_s4 == 8
e_ins1 == 9
e_ins2 == 10
FnName == <<"e_r1", "e_r2", "e_r3", "e_r4", "e_s1", "e_s2", "e_s3", "e_s4",
            "e_ins1", "e_ins2">>
ErrFns == DOMAIN FnName

(* defaults of _DTLZ_Base.__init__ *)
Default_n_obj == 3
Default_k == 5
Default_beta == 1

(* -------- MOMF_problems.py: the calibration tables -------- *)
mf_def_MOMF2_4_1a ==
    [e_r1 |-> [Phi   |-> (1 :> 8436 @@ 2 :> 7064 @@ 3 :> 5000),
                 scale |-> [f1 |-> <<10962, -2>>, f2 |-> <<16447, -5>>]],
       e_r2 |-> [Phi   |-> (1 :> 9178 @@ 2 :> 6893 @@ 3 :> 5000),
                 scale |-> [f1 |-> <<20085, -2>>, f2 |-> <<30882, -5>>]],
       e_r3 |-> [Phi   |-> (1 :> 8266 @@ 2 :> 6583 @@ 3 :> 5000),
                 scale |-> [f1 |-> <<13117, -2>>, f2 |-> <<21674, -5>>]],
       e_s1 |-> [Phi   |-> (1 :> 8697 @@ 2 :> 6853 @@ 3 :> 5000),
                 scale |-> [f1 |-> <<53856, -1>>, f2 |-> <<72515, -4>>]],
       e_s2 |-> [Phi   |-> (1 :> 7715 @@ 2 :> 5891 @@ 3 :> 5000),
                 scale |-> [f1 |-> <<32636, 0>>, f2 |-> <<44158, -3>>]],
       e_s3 |-> [Phi   |-> (1 :> 8697 @@ 2 :> 7014 @@ 3 :> 5000),
                 scale |-> [f1 |-> <<69287, -1>>, f2 |-> <<56141, -4>>]],
       e_s4 |-> [Phi   |-> (1 :> 7605 @@ 2 :> 6102 @@ 3 :> 5000),
                 scale |-> [f1 |-> <<42286, 0>>, f2 |-> <<34426, -3>>]]]

mf_def_MOMF2_4_1b ==
    [e_r1 |-> [Phi   |-> (1 :> 8426 @@ 2 :> 7054 @@ 3 :> 5000),
                 scale |-> [f1 |-> <<35062, -3>>, f2 |-> <<16365, -5>>]],
       e_r2 |-> [Phi   |-> (1 :> 9879 @@ 2 :> 6913 @@ 3 :> 5000),
                 scale |-> [f1 |-> <<63384, -3>>, f2 |-> <<31181, -5>>]],
       e_r3 |-> [Phi   |-> (1 :> 8476 @@ 2 :> 6993 @@ 3 :> 5000),
                 scale |-> [f1 |-> <<43033, -3>>, f2 |-> <<21740, -5>>]],
       e_s1 |-> [Phi   |-> (1 :> 8757 @@ 2 :> 7224 @@ 3 :> 5000),
                 scale |-> [f1 |-> <<17374, -1>>, f2 |-> <<74510, -4>>]],
       e_s2 |-> [Phi   |-> (1 :> 7725 @@ 2 :> 6122 @@ 3 :> 5000),
                 scale |-> [f1 |-> <<10267, 0>>, f2 |-> <<44144, -3>>]],
       e_s3 |-> [Phi   |-> (1 :> 8577 @@ 2 :> 6983 @@ 3 :> 5000),
                 scale |-> [f1 |-> <<17665, -1>>, f2 |-> <<55864, -4>>]],
       e_s4 |-> [Phi   |-> (1 :> 7525 @@ 2 :> 6022 @@ 3 :> 5000),
                 scale |-> [f1 |-> <<10822, 0>>, f2 |-> <<34230, -3>>]]]

mf_def_MOMF2_4_1c ==
    [e_r1 |-> [Phi   |-> (1 :> 8436 @@ 2 :> 6663 @@ 3 :> 5000),
                 scale |-> [f1 |-> <<10975, -2>>, f2 |-> <<39109, -6>>]],
       e_r2 |-> [Phi   |-> (1 :> 9028 @@ 2 :> 7304 @@ 3 :> 5000),
                 scale |-> [f1 |-> <<20177, -2>>, f2 |-> <<71956, -6>>]],
       e_r3 |-> [Phi   |-> (1 :> 8266 @@ 2 :> 6673 @@ 3 :> 5000),
                 scale |-> [f1 |-> <<13148, -2>>, f2 |-> <<50945, -6>>]],
       e_s1 |-> [Phi   |-> (1 :> 8416 @@ 2 :> 6773 @@ 3 :> 5000),
                 scale |-> [f1 |-> <<53518, -1>>, f2 |-> <<18673, -4>>]],
       e_s2 |-> [Phi   |-> (1 :> 7304 @@ 2 :> 5881 @@ 3 :> 5000),
                 scale |-> [f1 |-> <<32626, 0>>, f2 |-> <<11420, -3>>]],
       e_s3 |-> [Phi   |-> (1 :> 8717 @@ 2 :> 7134 @@ 3 :> 5000),
                 scale |-> [f1 |-> <<69229, -1>>, f2 |-> <<15959, -4>>]],
       e_s4 |-> [Phi   |-> (1 :> 7715 @@ 2 :> 6112 @@ 3 :> 5000),
                 scale |-> [f1 |-> <<42171, 0>>, f2 |-> <<97040, -4>>]]]

mf_def_MOMF2_4_1d ==
    [e_r1 |-> [Phi   |-> (1 :> 8286 @@ 2 :> 6653 @@ 3 :> 5000),
                 scale |-> [f1 |-> <<35214, -3>>, f2 |-> <<39022, -6>>]],
       e_r2 |-> [Phi   |-> (1 :> 9028 @@ 2 :> 6673 @@ 3 :> 5000),
                 scale |-> [f1 |-> <<63633, -3>>, f2 |-> <<71366, -6>>]],
       e_r3 |-> [Phi   |-> (1 :> 8256 @@ 2 :> 6683 @@ 3 :> 5000),
                 scale |-> [f1 |-> <<43210, -3>>, f2 |-> <<50684, -6>>]],
       e_s1 |-> [Phi   |-> (1 :> 8396 @@ 2 :> 6683 @@ 3 :> 5000),
                 scale |-> [f1 |-> <<16908, -1>>, f2 |-> <<18579, -4>>]],
       e_s2 |-> [Phi   |-> (1 :> 7254 @@ 2 :> 5851 @@ 3 :> 5000),
                 scale |-> [f1 |-> <<10274, 0>>, f2 |-> <<11334, -3>>]],
       e_s3 |-> [Phi   |-> (1 :> 8376 @@ 2 :> 6723 @@ 3 :> 5000),
                 scale |-> [f1 |-> <<17751, -1>>, f2 |-> <<15857, -4>>]],
       e_s4 |-> [Phi   |-> (1 :> 7254 @@ 2 :> 5851 @@ 3 :> 5000),
                 scale |-> [f1 |-> <<10810, 0>>, f2 |-> <<96065, -4>>]]]

mf_def_MOMF3_4_1 ==
    [e_r1 |-> [Phi   |-> (1 :> 8286 @@ 2 :> 6823 @@ 3 :> 5000),
                 scale |-> [f1 |-> <<14381, -5>>, f2 |-> <<14975, -5>>, f3 |-> <<16675, -5>>]],
       e_r2 |-> [Phi   |-> (1 :> 9368 @@ 2 :> 6643 @@ 3 :> 5000),
                 scale |-> [f1 |-> <<25430, -5>>, f2 |-> <<26420, -5>>, f3 |-> <<29649, -5>>]],
       e_r3 |-> [Phi   |-> (1 :> 8386 @@ 2 :> 6733 @@ 3 :> 5000),
                 scale |-> [f1 |-> <<18696, -5>>, f2 |-> <<19949, -5>>, f3 |-> <<20545, -5>>]],
       e_s1 |-> [Phi   |-> (1 :> 8436 @@ 2 :> 6803 @@ 3 :> 5000),
                 scale |-> [f1 |-> <<70386, -4>>, f2 |-> <<74024, -4>>, f3 |-> <<79370, -4>>]],
       e_s2 |-> [Phi   |-> (1 :> 7324 @@ 2 :> 5891 @@ 3 :> 5000),
                 scale |-> [f1 |-> <<42954, -3>>, f2 |-> <<45103, -3>>, f3 |-> <<48392, -3>>]],
       e_s3 |-> [Phi   |-> (1 :> 8426 @@ 2 :> 6793 @@ 3 :> 5000),
                 scale |-> [f1 |-> <<64054, -4>>, f2 |-> <<65529, -4>>, f3 |-> <<72184, -4>>]],
       e_s4 |-> [Phi   |-> (1 :> 7314 @@ 2 :> 5891 @@ 3 :> 5000),
                 scale |-> [f1 |-> <<38890, -3>>, f2 |-> <<40045, -3>>, f3 |-> <<43946, -3>>]]]

mf_def_MOMF3_5_1 ==
    [e_r1 |-> [Phi   |-> (1 :> 8436 @@ 2 :> 6583 @@ 3 :> 5000),
                 scale |-> [f1 |-> <<20252, -4>>, f2 |-> <<33006, -5>>, f3 |-> <<17791, -6>>]],
       e_r2 |-> [Phi   |-> (1 :> 7995 @@ 2 :> 6012 @@ 3 :> 5000),
                 scale |-> [f1 |-> <<35352, -4>>, f2 |-> <<58414, -5>>, f3 |-> <<30836, -6>>]],
       e_r3 |-> [Phi   |-> (1 :> 8246 @@ 2 :> 6633 @@ 3 :> 5000),
                 scale |-> [f1 |-> <<23078, -4>>, f2 |-> <<38555, -5>>, f3 |-> <<20860, -6>>]],
       e_s1 |-> [Phi   |-> (1 :> 8426 @@ 2 :> 6783 @@ 3 :> 5000),
                 scale |-> [f1 |-> <<10696, -2>>, f2 |-> <<17364, -3>>, f3 |-> <<94979, -5>>]],
       e_s2 |-> [Phi   |-> (1 :> 7304 @@ 2 :> 5881 @@ 3 :> 5000),
                 scale |-> [f1 |-> <<64917, -2>>, f2 |-> <<10549, -2>>, f3 |-> <<57512, -4>>]],
       e_s3 |-> [Phi   |-> (1 :> 8567 @@ 2 :> 6943 @@ 3 :> 5000),
                 scale |-> [f1 |-> <<13058, -2>>, f2 |-> <<17865, -3>>, f3 |-> <<10273, -4>>]],
       e_s4 |-> [Phi   |-> (1 :> 7525 @@ 2 :> 5991 @@ 3 :> 5000),
                 scale |-> [f1 |-> <<80143, -2>>, f2 |-> <<10862, -2>>, f3 |-> <<62927, -4>>]]]

mf_def_MOMF3_7_1 ==
    [e_r1 |-> [Phi   |-> (1 :> 9168 @@ 2 :> 8356 @@ 3 :> 6993 @@ 4 :> 5000),
                 scale |-> [f1 |-> <<97701, -5>>, f2 |-> <<10300, -4>>, f3 |-> <<13075, -4>>]],
       e_r2 |-> [Phi   |-> (1 :> 9989 @@ 2 :> 9659 @@ 3 :> 6593 @@ 4 :> 5000),
                 scale |-> [f1 |-> <<17128, -4>>, f2 |-> <<18116, -4>>, f3 |-> <<23048, -4>>]],
       e_r3 |-> [Phi   |-> (1 :> 8647 @@ 2 :> 8476 @@ 3 :> 6733 @@ 4 :> 5000),
                 scale |-> [f1 |-> <<13973, -4>>, f2 |-> <<13325, -4>>, f3 |-> <<15736, -4>>]],
       e_s1 |-> [Phi   |-> (1 :> 9318 @@ 2 :> 8567 @@ 3 :> 6903 @@ 4 :> 5000),
                 scale |-> [f1 |-> <<65451, -3>>, f2 |-> <<65640, -3>>, f3 |-> <<80547, -3>>]],
       e_s2 |-> [Phi   |-> (1 :> 8967 @@ 2 :> 7505 @@ 3 :> 5961 @@ 4 :> 5000),
                 scale |-> [f1 |-> <<39860, -2>>, f2 |-> <<39942, -2>>, f3 |-> <<49223, -2>>]],
       e_s3 |-> [Phi   |-> (1 :> 9599 @@ 2 :> 9148 @@ 3 :> 8116 @@ 4 :> 5000),
                 scale |-> [f1 |-> <<10640, -2>>, f2 |-> <<10675, -2>>, f3 |-> <<12502, -2>>]],
       e_s4 |-> [Phi   |-> (1 :> 9058 @@ 2 :> 7565 @@ 3 :> 5981 @@ 4 :> 5000),
                 scale |-> [f1 |-> <<39885, -2>>, f2 |-> <<39813, -2>>, f3 |-> <<46518, -2>>]]]

mf_def_MOMF3_7_2 ==
    [e_r1 |-> [Phi   |-> (1 :> 9138 @@ 2 :> 8376 @@ 3 :> 6843 @@ 4 :> 5000),
                 scale |-> [f1 |-> <<12392, -4>>, f2 |-> <<12111, -4>>, f3 |-> <<97384, -5>>]],
       e_r2 |-> [Phi   |-> (1 :> 9989 @@ 2 :> 9458 @@ 3 :> 6703 @@ 4 :> 5000),
                 scale |-> [f1 |-> <<21770, -4>>, f2 |-> <<21221, -4>>, f3 |-> <<17357, -4>>]],
       e_r3 |-> [Phi   |-> (1 :> 8607 @@ 2 :> 8376 @@ 3 :> 6713 @@ 4 :> 5000),
                 scale |-> [f1 |-> <<14768, -4>>, f2 |-> <<15112, -4>>, f3 |-> <<13054, -4>>]],
       e_s1 |-> [Phi   |-> (1 :> 9228 @@ 2 :> 8446 @@ 3 :> 6803 @@ 4 :> 5000),
                 scale |-> [f1 |-> <<76424, -3>>, f2 |-> <<76271, -3>>, f3 |-> <<63957, -3>>]],
       e_s2 |-> [Phi   |-> (1 :> 8737 @@ 2 :> 7334 @@ 3 :> 5891 @@ 4 :> 5000),
                 scale |-> [f1 |-> <<46585, -2>>, f2 |-> <<46339, -2>>, f3 |-> <<38838, -2>>]],
       e_s3 |-> [Phi   |-> (1 :> 9488 @@ 2 :> 8977 @@ 3 :> 7915 @@ 4 :> 5000),
                 scale |-> [f1 |-> <<10944, -2>>, f2 |-> <<10884, -2>>, f3 |-> <<98565, -3>>]],
       e_s4 |-> [Phi   |-> (1 :> 8707 @@ 2 :> 7294 @@ 3 :> 5871 @@ 4 :> 5000),
                 scale |-> [f1 |-> <<43017, -2>>, f2 |-> <<42837, -2>>, f3 |-> <<38594, -2>>]]]

(* the range of the fidelity parameter phi: 10000 is full fidelity *)
FullFidelity == 10000

(* a variant of the tables in which every row's Phi values are listed in
   the opposite order of levels *)
mf_def_levels_reversed(cls) ==
    LET T == CASE cls = "MOMF3_7_1" -> mf_def_MOMF3_7_1
               [] cls = "MOMF3_7_2" -> mf_def_MOMF3_7_2
               [] cls = "MOMF3_4_1" -> mf_def_MOMF3_4_1
               [] cls = "MOMF3_5_1" -> mf_def_MOMF3_5_1
               [] OTHER -> mf_def_MOMF2_4_1a
    IN  [name \in DOMAIN T |->
           [Phi |-> [l \in DOMAIN T[name].Phi |->
                       T[name].Phi[Cardinality(DOMAIN T[name].Phi) + 1 - l]],
            scale |-> T[name].scale]]

mf_def(cls) ==
    CASE cls = "MOMF2_4_1a" -> mf_def_MOMF2_4_1a
      [] cls = "MOMF2_4_1b" -> mf_def_MOMF2_4_1b
      [] cls = "MOMF2_4_1c" -> mf_def_MOMF2_4_1c
      [] cls = "MOMF2_4_1d" -> mf_def_MOMF2_4_1d
      [] cls = "MOMF3_4_1" -> mf_def_MOMF3_4_1
      [] cls = "MOMF3_5_1" -> mf_def_MOMF3_5_1
      [] cls = "MOMF3_7_1" -> mf_def_MOMF3_7_1
      [] cls = "MOMF3_7_2" -> mf_def_MOMF3_7_2

(* An instance: its attributes, those of its class included (n_obj and
   _vars of an RE problem, mf_def of a multi-fidelity class).  An attribute
   the class does not have is 0 (k and beta of an RE problem, err_fn of a
   problem that is not multi-fidelity) or empty (mf_def). *)
NoAttr == 0 * 1

(* _BaseProblem.__init__: n_var = len(self._vars) *)
BaseProblem_init(o) == [o EXCEPT !.n_var = Len(o.vars)]

(* _DTLZ_Base.__init__ *)
DTLZ_Base_init(o, n_obj, k, beta) ==
    BaseProblem_init(
        [o EXCEPT !.beta = beta, !.n_obj = n_obj, !.k = k,
                  !.n_var = n_obj + k - 1,
                  !.vars = [n \in 1..(n_obj + k - 1) |-> <<0, 1 * XUnit>>]])

(* the __init__ chain below _MF_Base of an instance of class cls *)
Problem_init(o, n_obj, k, beta) ==
    IF ProblemOf(o.cls) \in DTLZClasses
    THEN DTLZ_Base_init(o, n_obj, k, beta)
    ELSE BaseProblem_init(o)

(* the object before __init__ runs: the class attributes *)
ClassAttrs(cls) ==
    [cls |-> cls,
     n_obj |-> IF ProblemOf(cls) \in REClasses THEN RE_n_obj(ProblemOf(cls)) ELSE NoAttr,
     vars |-> IF ProblemOf(cls) \in REClasses THEN RE_vars(ProblemOf(cls)) ELSE << >>,
     n_var |-> NoAttr, k |-> NoAttr, beta |-> NoAttr, err_fn |-> NoAttr,
     mf_def |-> IF cls \in MFClasses THEN mf_def(cls) ELSE << >>]

(* _MF_Base.__init__: self.err_fn = err_fn.__func__, then the problem's __init__ *)
MF_Base_init(o, err_fn, n_obj, k, beta) ==
    Problem_init([o EXCEPT !.err_fn = err_fn], n_obj, k, beta)

(* cls(err_fn=..., n_obj=..., k=..., beta=...) *)
New(cls, err_fn, n_obj, k, beta) ==
    IF cls \in MFClasses
    THEN MF_Base_init(ClassAttrs(cls), err_fn, n_obj, k, beta)
    ELSE Problem_init(ClassAttrs(cls), n_obj, k, beta)

(* -------- matrices: a batch is a sequence of rows -------- *)
Rows(x) == Len(x)
Cols(x) == Len(x[1])

(* x[:, :n] and x[:, n:] *)
SliceTo(x, n) ==
    [r \in 1..Rows(x) |-> SubSeq(x[r], 1, IF n < Cols(x) THEN n ELSE Cols(x))]
SliceFrom(x, n) == [r \in 1..Rows(x) |-> SubSeq(x[r], n + 1, Cols(x))]

(* np.hstack((S, column)) *)
HStack(S, col) == [r \in 1..Len(S) |-> Append(S[r], col[r])]

Ok(F) == [ok |-> TRUE, F |-> F, err |-> "none"]
Raise(e) == [ok |-> FALSE, F |-> << >>, err |-> e]

(* the cells of an objective matrix *)
NumCell(v) == [t |-> "num", v |-> v]
ExprCell(f, args) == [t |-> "expr", f |-> f, args |-> args]
NaN == [t |-> "nan"]
SumCell(hf, scale, e) == [t |-> "sum", hf |-> hf, scale |-> scale, e |-> e]

(* -------- RE_problems.py -------- *)
(* the closed forms of RE2_4_1, RE3_5_4 and RE3_4_7: each objective is a
   term naming its formula, over the columns the method reads; x[:, j]
   raises IndexError when the batch has no column j *)
RE_columns(p) == CASE p = "RE2_4_1" -> 4 [] p = "RE3_5_4" -> 5 [] p = "RE3_4_7" -> 4

RE_objectives(p) ==
    CASE p = "RE2_4_1" -> <<"RE2_4_1.f1", "RE2_4_1.f2">>
      [] p = "RE3_5_4" -> <<"RE3_5_4.f1", "RE3_5_4.f2", "RE3_5_4.f3">>
      [] p = "RE3_4_7" -> <<"RE3_4_7.f1", "RE3_4_7.f2", "RE3_4_7.f3">>

RE_evaluate_obj(p, x) ==
    IF Cols(x) < RE_columns(p)
    THEN Raise("IndexError")
    ELSE Ok([r \in 1..Rows(x) |->
              [f \in 1..Len(RE_objectives(p)) |->
                 ExprCell(RE_objectives(p)[f], SubSeq(x[r], 1, RE_columns(p)))]])

(* -------- DTLZ_problems.py -------- *)
(* cos(x * pi / 2) and sin(x * pi / 2) on the sample points where they are
   rational: x = 0, x = 1 and the two points of the 3-4-5 triangle,
   (2/pi) atan(3/4) and (2/pi) atan(4/3), to the sample resolution *)
CosHalfPi(v) ==
    CASE v = 0 -> RInt(1) [] v = 4097 -> Rat(4, 5) [] v = 5903 -> Rat(3, 5)
      [] v = 1 * XUnit -> RInt(0)
SinHalfPi(v) ==
    CASE v = 0 -> RInt(0) [] v = 4097 -> Rat(3, 5) [] v = 5903 -> Rat(4, 5)
      [] v = 1 * XUnit -> RInt(1)

(* cos(20 * pi * (x - 0.5)) where 20 * (x - 0.5) is a multiple of 1/2 *)
Cos20Pi(v) ==
    LET h == (40 * v - 20 * XUnit) \div XUnit
    IN  CASE h % 4 = 0 -> RInt(1) [] h % 4 = 2 -> RInt(-1) [] OTHER -> RInt(0)

(* _DTLZ_Base.g: one value per row *)
g(x_m) ==
    [r \in 1..Rows(x_m) |->
       RAdd(RInt(Cols(x_m)),
            RSum([j \in 1..Cols(x_m) |->
                    RSub(RPow(RSub(XRat(x_m[r][j]), Rat(1, 2)), 2),
                         Cos20Pi(x_m[r][j]))]))]

(* the loop of _DTLZ_Base.s, at index i with the columns S built so far *)
RECURSIVE s_loop(_, _, _, _)
s_loop(beta, x_pos, i, S) ==
    IF i < 0 THEN Ok(S)
    ELSE IF i >= Cols(x_pos) THEN Raise("IndexError")
    ELSE s_loop(beta, x_pos, i - 1,
                HStack(S, [r \in 1..Rows(x_pos) |->
                             RPow(RMul(RProd([j \in 1..i |-> CosHalfPi(x_pos[r][j])]),
                                       SinHalfPi(x_pos[r][i + 1])), beta)]))

(* a variant of _DTLZ_Base.s in which the product over no columns is 0 *)
s_empty_product_zero(o, x_pos) ==
    s_loop(o.beta, x_pos, o.n_obj - 1 - 1,
           [r \in 1..Rows(x_pos) |->
              << IF Cols(x_pos) = 0 THEN RInt(0)
                 ELSE RPow(RProd([j \in 1..Cols(x_pos) |-> CosHalfPi(x_pos[r][j])]),
                           o.beta) >>])

(* a variant of _DTLZ_Base.s whose loop starts one index lower:
   range(self.n_obj-1-2, -1, -1) *)
s_one_short(o, x_pos) ==
    s_loop(o.beta, x_pos, o.n_obj - 1 - 2,
           [r \in 1..Rows(x_pos) |->
              << RPow(RProd([j \in 1..Cols(x_pos) |-> CosHalfPi(x_pos[r][j])]),
                      o.beta) >>])

(* _DTLZ_Base.s *)
s(o, x_pos) ==
    s_loop(o.beta, x_pos, o.n_obj - 1 - 1,
           [r \in 1..Rows(x_pos) |->
              << RPow(RProd([j \in 1..Cols(x_pos) |-> CosHalfPi(x_pos[r][j])]),
                      o.beta) >>])

(* return (1 + G_xm) * S_xpos *)
DTLZ2_return(G_xm, S_xpos) ==
    IF ~S_xpos.ok THEN S_xpos
    ELSE Ok([r \in 1..Len(S_xpos.F) |->
               [i \in 1..Len(S_xpos.F[r]) |->
                  NumCell(RMul(RAdd(RInt(1), G_xm[r]), S_xpos.F[r][i]))]])

(* DTLZ2._evaluate_obj *)
DTLZ2_evaluate_obj(o, x) ==
    DTLZ2_return(g(SliceFrom(x, o.n_obj - 1)), s(o, SliceTo(x, o.n_obj - 1)))

(* a variant of the inverted return that subtracts from 1 after the
   product: 1 - (1 + G_xm) * S_xpos *)
InvertedDTLZ2_return_late(G_xm, S_xpos) ==
    IF ~S_xpos.ok THEN S_xpos
    ELSE Ok([r \in 1..Len(S_xpos.F) |->
               [i \in 1..Len(S_xpos.F[r]) |->
                  NumCell(RSub(RInt(1),
                               RMul(RAdd(RInt(1), G_xm[r]), S_xpos.F[r][i])))]])

(* return (1 + G_xm) * (1 - S_xpos) *)
InvertedDTLZ2_return(G_xm, S_xpos) ==
    IF ~S_xpos.ok THEN S_xpos
    ELSE Ok([r \in 1..Len(S_xpos.F) |->
               [i \in 1..Len(S_xpos.F[r]) |->
                  NumCell(RMul(RAdd(RInt(1), G_xm[r]),
                               RSub(RInt(1), S_xpos.F[r][i])))]])

(* InvertedDTLZ2._evaluate_obj *)
InvertedDTLZ2_evaluate_obj(o, x) ==
    InvertedDTLZ2_return(g(SliceFrom(x, o.n_obj - 1)), s(o, SliceTo(x, o.n_obj - 1)))

(* -------- base.py: _BaseProblem -------- *)
(* self._evaluate_obj(x), dispatched on the problem class *)
evaluate_obj(o, x) ==
    CASE ProblemOf(o.cls) = "DTLZ2" -> DTLZ2_evaluate_obj(o, x)
      [] ProblemOf(o.cls) = "InvertedDTLZ2" -> InvertedDTLZ2_evaluate_obj(o, x)
      [] OTHER -> RE_evaluate_obj(ProblemOf(o.cls), x)

(* _BaseProblem.evaluate *)
evaluate(o, x) == evaluate_obj(o, x)

(* _BaseProblem.get_bound_arrays *)
get_bound_arrays(o) ==
    [x_min |-> [j \in 1..Len(o.vars) |-> o.vars[j][1]],
     x_max |-> [j \in 1..Len(o.vars) |-> o.vars[j][2]]]

(* -------- wang_error_functions.py -------- *)
(* A quantity c * u: a rational multiple of an atom u, where u is 1, the
   linear decay 1 - 0.0001 * phi, or exp(a) for a rational a. *)
One == <<"one">>
Linear(phi) == <<"linear", phi>>
Exp(a) == <<"exp", a[1], a[2]>>
Q(c, u) == [c |-> c, u |-> u]
QScale(q, r) == Q(RMul(q.c, r), q.u)
(* q1 + q2, for two multiples of the same atom (or a zero) *)
QAdd(q1, q2) ==
    IF q2.c = RInt(0) THEN q1
    ELSE IF q1.c = RInt(0) THEN q2
    ELSE Q(RAdd(q1.c, q2.c), q1.u)

(* np.random.rand: the values the generator yields, from its state at the
   call (seed) on; each is in [0, 1) *)
DrawTable == << Rat(0, 1), Rat(1, 2), Rat(9, 10), Rat(1, 20) >>
Draw(seed, pos) == DrawTable[((seed + pos) % Len(DrawTable)) + 1]

(* what an error function returns: the noise vector e and the number of
   random values it drew *)
Noise(e, drawn) == [ok |-> TRUE, e |-> e, drawn |-> drawn, err |-> "none"]
NoiseRaise(err) == [ok |-> FALSE, e |-> << >>, drawn |-> 0, err |-> err]

(* e = np.sum(a * np.cos(w * x + b + np.pi), axis=1) with a = theta,
   w = 10 pi theta, b = 0.5 pi theta: a term over theta and the row *)
CosSum(theta, x) ==
    [r \in 1..Rows(x) |-> [t |-> "cossum", theta |-> theta, x |-> x[r]]]

e_r1_theta(phi) == Q(RInt(1), Linear(phi))
e_r1_fn(x, phi) == Noise(CosSum(e_r1_theta(phi), x), 0)

e_r2_theta(phi) == Q(RInt(1), Exp(Rat(-25 * phi, 100000)))
e_r2_fn(x, phi) == Noise(CosSum(e_r2_theta(phi), x), 0)

(* IEEE-754 doubles, for theta of e_r3: a non-negative double is the natural
   number of units of 2^-65 it holds, written in limbs of 15 bits, lowest
   first, without leading zero limbs (0 is << >>).  Every double the
   function meets, from 0.0002 up to 1.8, is a whole number of such units. *)
Limb == 2^15

RECURSIVE BNorm(_)
BNorm(X) == IF X # << >> /\ X[Len(X)] = 0 THEN BNorm(SubSeq(X, 1, Len(X) - 1)) ELSE X

(* X * k + c for a natural k below 2^14 *)
RECURSIVE BMulCarry(_, _, _)
BMulCarry(X, k, c) ==
    IF X = << >> THEN (IF c = 0 THEN << >> ELSE <<c % Limb>> \o BMulCarry(X, k, c \div Limb))
    ELSE <<(X[1] * k + c) % Limb>> \o BMulCarry(Tail(X), k, (X[1] * k + c) \div Limb)

(* X + a for a natural a below 2^15 *)
RECURSIVE BAddSmall(_, _)
BAddSmall(X, a) ==
    IF a = 0 THEN X
    ELSE IF X = << >> THEN <<a>>
    ELSE <<(X[1] + a) % Limb>> \o BAddSmall(Tail(X), (X[1] + a) \div Limb)

(* X - Y - b for X >= Y + b *)
RECURSIVE BSubBorrow(_, _, _)
BSubBorrow(X, Y, b) ==
    IF X = << >> THEN << >>
    ELSE LET v == X[1] - (IF Y = << >> THEN 0 ELSE Y[1]) - b
         IN  <<(v + Limb) % Limb>>
                \o BSubBorrow(Tail(X), IF Y = << >> THEN << >> ELSE Tail(Y),
                              IF v < 0 THEN 1 ELSE 0)

(* X <= Y *)
RECURSIVE BLe(_, _)
BLe(X, Y) ==
    IF Len(X) # Len(Y) THEN Len(X) < Len(Y)
    ELSE IF X = << >> THEN TRUE
    ELSE IF X[Len(X)] # Y[Len(Y)] THEN X[Len(X)] < Y[Len(Y)]
    ELSE BLe(SubSeq(X, 1, Len(X) - 1), SubSeq(Y, 1, Len(Y) - 1))

(* the number of bits of a limb, and of X *)
RECURSIVE LimbBits(_)
LimbBits(v) == IF v = 0 THEN 0 ELSE 1 + LimbBits(v \div 2)
BitLen(X) == IF X = << >> THEN 0 ELSE 15 * (Len(X) - 1) + LimbBits(X[Len(X)])

(* the bits of a double's significand *)
Significand == 53

(* X with its lowest sh bits (sh below 15) rounded away, to nearest, ties
   to the even significand *)
RoundAway(X, sh) ==
    IF (X[1] % 2^sh) > 2^(sh - 1)
          \/ ((X[1] % 2^sh) = 2^(sh - 1) /\ (X[1] \div 2^sh) % 2 = 1)
    THEN BAddSmall(BNorm(BSubBorrow(X, <<X[1] % 2^sh>>, 0)), 2^sh)
    ELSE BNorm(BSubBorrow(X, <<X[1] % 2^sh>>, 0))

(* the double nearest to X *)
FRound(X) == IF BitLen(X) <= Significand THEN X ELSE RoundAway(X, BitLen(X) - Significand)

(* a * n for a double a and an integer n, and a - b for doubles a >= b *)
FMulInt(a, n) == FRound(BNorm(BMulCarry(a, n, 0)))
FSub(a, b) == FRound(BNorm(BSubBorrow(a, b, 0)))

(* the literals of e_r3 as doubles *)
F_0 == << >>
F_0_0002 == <<17197, 22072, 23435, 209>>
F_1 == <<0, 0, 0, 0, 32>>
F_1_2 == <<24576, 19660, 6553, 13107, 38>>
F_1_4 == <<16384, 6553, 13107, 26214, 44>>
F_1_6 == <<16384, 26214, 19660, 6553, 51>>
F_1_8 == <<8192, 13107, 26214, 19660, 57>>
F_0_8 == <<8192, 13107, 26214, 19660, 25>>
F_0_6 == <<12288, 26214, 19660, 6553, 19>>
F_0_4 == <<20480, 6553, 13107, 26214, 12>>
F_0_2 == <<26624, 19660, 6553, 13107, 6>>

(* c - 0.0002 * phi *)
e_r3_decay(c, phi) == FSub(c, FMulInt(F_0_0002, phi))

e_r3_theta(phi) ==
    IF phi < 1000 THEN e_r3_decay(F_1, phi)
    ELSE IF phi < 2000 THEN F_0_8
    ELSE IF phi < 3000 THEN e_r3_decay(F_1_2, phi)
    ELSE IF phi < 4000 THEN F_0_6
    ELSE IF phi < 5000 THEN e_r3_decay(F_1_4, phi)
    ELSE IF phi < 6000 THEN F_0_4
    ELSE IF phi < 7000 THEN e_r3_decay(F_1_6, phi)
    ELSE IF phi < 8000 THEN F_0_2
    ELSE IF phi < 9000 THEN e_r3_decay(F_1_8, phi)
    ELSE F_0
e_r3_fn(x, phi) == Noise(CosSum(Q(e_r3_theta(phi), One), x), 0)

(* e_r4(x, phi, x_b): called as err_fn(x_s, Phi) it lacks x_b *)
e_r4_fn(x, phi) == NoiseRaise("TypeError")

(* gamma = np.sum(1 - np.abs(x), axis=1) *)
Gamma(x) ==
    [r \in 1..Rows(x) |->
       RSum([j \in 1..Cols(x) |-> RSub(RInt(1), RAbs(x[r][j]))])]

(* e = np.random.rand(n) * sigma + mu, row by row *)
Stochastic(n, sigma, mu, seed, pos) ==
    Noise([r \in 1..n |->
             [t |-> "q", q |-> QAdd(QScale(sigma, Draw(seed, pos + r - 1)), mu[r])]],
          n)

(* mu = 0 *)
ZeroMu(n) == [r \in 1..n |-> Q(RInt(0), One)]
(* a variant of mu that does not divide by d: mu = sigma * gamma *)
GammaMu_undivided(sigma, d, gamma) == [r \in 1..Len(gamma) |-> QScale(sigma, gamma[r])]

(* mu = (sigma / d) * gamma *)
GammaMu(sigma, d, gamma) == [r \in 1..Len(gamma) |-> QScale(QScale(sigma, Rat(1, d)), gamma[r])]
(* sigma = 0.1 * nu *)
Sigma(nu) == QScale(nu, Rat(1, 10))

e_s1_fn(x, phi, seed, pos) ==
    Stochastic(Rows(x), Sigma(Q(RInt(1), Linear(phi))), ZeroMu(Rows(x)), seed, pos)

e_s2_fn(x, phi, seed, pos) ==
    Stochastic(Rows(x), Sigma(Q(RInt(1), Exp(Rat(-5 * phi, 10000)))), ZeroMu(Rows(x)),
               seed, pos)

e_s3_fn(x, phi, seed, pos) ==
    IF Cols(x) = 0 THEN NoiseRaise("ZeroDivisionError")
    ELSE Stochastic(Rows(x), Sigma(Q(RInt(1), Linear(phi))),
                    GammaMu(Sigma(Q(RInt(1), Linear(phi))), Cols(x), Gamma(x)),
                    seed, pos)

e_s4_fn(x, phi, seed, pos) ==
    IF Cols(x) = 0 THEN NoiseRaise("ZeroDivisionError")
    ELSE Stochastic(Rows(x), Sigma(Q(RInt(1), Exp(Rat(-5 * phi, 10000)))),
                    GammaMu(Sigma(Q(RInt(1), Exp(Rat(-5 * phi, 10000)))), Cols(x), Gamma(x)),
                    seed, pos)

(* a variant of the spike that leaves out d: e = 10 * ones(n); e[r > p] = 0 *)
Instability_without_d(n, d, gt, seed, pos) ==
    Noise([r \in 1..n |-> [t |-> "num", v |-> IF gt[r] THEN RInt(0) ELSE RInt(10)]], n)

(* e = 10 * d * ones(n); e[r > p] = 0 *)
Instability(n, d, gt, seed, pos) ==
    Noise([r \in 1..n |->
             [t |-> "num",
              v |-> IF gt[r] THEN RInt(0) ELSE RInt(10 * d)]],
          n)

e_ins1_p(phi) == RMul(Rat(1, 10), RSub(RInt(1), Rat(phi, 10000)))
e_ins1_fn(x, phi, seed, pos) ==
    Instability(Rows(x), Cols(x),
                [r \in 1..Rows(x) |-> ~RLe(Draw(seed, pos + r - 1), e_ins1_p(phi))],
                seed, pos)

(* r > exp(-0.001 * phi - 0.1), for a drawn r and an integer phi:
   phi > -1000 ln(r) - 100, which is 593.1 for r = 1/2, 5.4 for r = 9/10
   and 2895.7 for r = 1/20 *)
GtExpIns2(r, phi) ==
    CASE r = Rat(0, 1) -> FALSE
      [] r = Rat(1, 2) -> phi > 593
      [] r = Rat(9, 10) -> phi > 5
      [] r = Rat(1, 20) -> phi > 2895
e_ins2_fn(x, phi, seed, pos) ==
    Instability(Rows(x), Cols(x),
                [r \in 1..Rows(x) |-> GtExpIns2(Draw(seed, pos + r - 1), phi)],
                seed, pos)

(* self.err_fn(x_s, Phi): the call of function object fn; seed and pos give
   the state of the random generator *)
CallErrFn(fn, x, phi, seed, pos) ==
    CASE fn = e_r1 -> e_r1_fn(x, phi)
      [] fn = e_r2 -> e_r2_fn(x, phi)
      [] fn = e_r3 -> e_r3_fn(x, phi)
      [] fn = e_r4 -> e_r4_fn(x, phi)
      [] fn = e_s1 -> e_s1_fn(x, phi, seed, pos)
      [] fn = e_s2 -> e_s2_fn(x, phi, seed, pos)
      [] fn = e_s3 -> e_s3_fn(x, phi, seed, pos)
      [] fn = e_s4 -> e_s4_fn(x, phi, seed, pos)
      [] fn = e_ins1 -> e_ins1_fn(x, phi, seed, pos)
      [] fn = e_ins2 -> e_ins2_fn(x, phi, seed, pos)

(* -------- base.py: _MF_Base -------- *)
(* a variant of the keyword of objective index f that numbers the
   objectives from 0: f'Phi_f{f}' *)
Phi_kw_zero_based(f) == <<"Phi_f0", "Phi_f1", "Phi_f2", "Phi_f3", "Phi_f4", "Phi_f5">>[f + 1]

(* f'f{f+1}' and f'Phi_{f_kw}' for the objective index f *)
f_kw(f) == <<"f1", "f2", "f3", "f4", "f5", "f6">>[f + 1]
Phi_kw(f) == <<"Phi_f1", "Phi_f2", "Phi_f3", "Phi_f4", "Phi_f5", "Phi_f6">>[f + 1]

(* a variant of the scaling that divides by the upper bound instead of the
   width: (1 - -1) * (x - x_min)/x_max + -1 *)
Scale1_over_max(v, lo, hi) ==
    RAdd(RDiv(RMul(RInt(1 - (-1)), RSub(XRat(v), XRat(lo))), XRat(hi)), RInt(-1))

(* x_s = (1 - -1) * (x - x_min)/(x_max - x_min) + -1 for one entry *)
Scale1(v, lo, hi) ==
    RAdd(RDiv(RMul(RInt(1 - (-1)), RSub(XRat(v), XRat(lo))),
              RSub(XRat(hi), XRat(lo))),
         RInt(-1))

(* numpy broadcasting of an N x M batch against a length-n_var vector *)
Broadcasts(M, n_var) == M = n_var \/ M = 1 \/ n_var = 1
BroadcastCols(M, n_var) == IF M = 1 THEN n_var ELSE M

(* x_s = (1 - -1) * (x - x_min)/(x_max - x_min) + -1 for the batch *)
ScaleWith(x, b, M, nv) ==
    IF ~Broadcasts(M, nv) THEN Raise("ValueError")
    ELSE Ok([r \in 1..Rows(x) |->
              [j \in 1..BroadcastCols(M, nv) |->
                 Scale1(x[r][IF M = 1 THEN 1 ELSE j],
                        b.x_min[IF nv = 1 THEN 1 ELSE j],
                        b.x_max[IF nv = 1 THEN 1 ELSE j])]])

(* lines 97-98 of evaluate_MF: the batch scaled to [-1, 1] *)
ScaleBatch(o, x) == ScaleWith(x, get_bound_arrays(o), Cols(x), Len(o.vars))

(* result['F'][:, f] = column *)
SetColumn(F, f, col) == [r \in 1..Len(F) |-> [F[r] EXCEPT ![f + 1] = col[r]]]

(* what evaluate_MF returns or raises; trace lists, for each objective it
   degraded, the key it indexed mf_def with and the function it called *)
MFResult(ok, F, err, trace) == [ok |-> ok, F |-> F, err |-> err, trace |-> trace]

(* a variant of line 106 that also degrades level 0: elif kwargs[Phi_kw] >= 0 *)
Degraded_from_zero(level) == level >= 0

(* line 106: elif kwargs[Phi_kw] > 0 *)
Degraded(level) == level > 0

(* the loop of evaluate_MF from objective f on: F is result['F'] so far and
   pos the number of random values drawn so far *)
RECURSIVE MF_loop(_, _, _, _, _, _, _, _, _)

(* result['F'][:, f] = result['F'][:, f] + err, with err = scale * e, and on
   to the next objective *)
MF_add(o, kwargs, x_s, n, seed, f, F, pos, trace, scale, e) ==
    IF ~e.ok THEN MFResult(FALSE, << >>, e.err, trace)
    ELSE MF_loop(o, kwargs, x_s, n, seed, f + 1,
                 SetColumn(F, f, [r \in 1..n |-> SumCell(F[r][f + 1], scale, e.e[r])]),
                 pos + e.drawn, trace)

(* a variant of lines 107-109 that scales every objective by the scale of
   the first one *)
MF_error_first_scale(o, kwargs, x_s, n, seed, f, F, pos, trace, name) ==
    IF name \notin DOMAIN o.mf_def
          \/ f_kw(f) \notin DOMAIN o.mf_def[name].scale
          \/ kwargs[Phi_kw(f)] \notin DOMAIN o.mf_def[name].Phi
    THEN MFResult(FALSE, << >>, "KeyError", trace)
    ELSE MF_add(o, kwargs, x_s, n, seed, f, F, pos, trace,
                o.mf_def[name].scale[f_kw(0)],
                CallErrFn(o.err_fn, x_s, o.mf_def[name].Phi[kwargs[Phi_kw(f)]],
                          seed, pos))

(* lines 107-109: the row of mf_def named by the active function, its scale
   for f_kw and its Phi for the requested level, then the call *)
MF_error(o, kwargs, x_s, n, seed, f, F, pos, trace, name) ==
    IF name \notin DOMAIN o.mf_def
          \/ f_kw(f) \notin DOMAIN o.mf_def[name].scale
          \/ kwargs[Phi_kw(f)] \notin DOMAIN o.mf_def[name].Phi
    THEN MFResult(FALSE, << >>, "KeyError", trace)
    ELSE MF_add(o, kwargs, x_s, n, seed, f, F, pos, trace,
                o.mf_def[name].scale[f_kw(f)],
                CallErrFn(o.err_fn, x_s, o.mf_def[name].Phi[kwargs[Phi_kw(f)]],
                          seed, pos))

MF_loop(o, kwargs, x_s, n, seed, f, F, pos, trace) ==
    IF f >= o.n_obj THEN MFResult(TRUE, F, "none", trace)
    ELSE IF Phi_kw(f) \notin DOMAIN kwargs
    THEN MF_loop(o, kwargs, x_s, n, seed, f + 1,
                 SetColumn(F, f, [r \in 1..n |-> NaN]), pos, trace)
    ELSE IF Degraded(kwargs[Phi_kw(f)])
    THEN MF_error(o, kwargs, x_s, n, seed, f, F, pos,
                  Append(trace, [f |-> f, row |-> FnName[o.err_fn], fn |-> o.err_fn]),
                  FnName[o.err_fn])
    ELSE MF_loop(o, kwargs, x_s, n, seed, f + 1, F, pos, trace)

(* evaluate_MF after result = self.evaluate(x) and the scaling of x *)
MF_body(o, kwargs, n, seed, result, x_s) ==
    IF ~result.ok THEN MFResult(FALSE, << >>, result.err, << >>)
    ELSE IF ~x_s.ok THEN MFResult(FALSE, << >>, x_s.err, << >>)
    ELSE MF_loop(o, kwargs, x_s.F, n, seed, 0, result.F, 0, << >>)

(* _MF_Base.evaluate_MF *)
evaluate_MF(o, x, kwargs, seed) ==
    MF_body(o, kwargs, Rows(x), seed, evaluate(o, x), ScaleBatch(o, x))

(* a variant of set_error_fn that also drops the other functions' rows from
   the calibration table *)
set_error_fn_keeping_row(os, i, err_fn) ==
    [os EXCEPT ![i].err_fn = err_fn,
               ![i].mf_def = [name \in DOMAIN @ \cap {FnName[err_fn]} |-> @[name]]]

(* a variant of set_error_fn that sets the attribute on the class, for every
   instance: type(self).err_fn = err_fn.__func__ *)
set_error_fn_on_class(os, i, err_fn) == [j \in DOMAIN os |-> [os[j] EXCEPT !.err_fn = err_fn]]

(* _MF_Base.set_error_fn: self.err_fn = err_fn.__func__ *)
set_error_fn(os, i, err_fn) == [os EXCEPT ![i].err_fn = err_fn]

(* -------- inputs -------- *)
(* the sample points of a variable with bounds lo..hi *)
BoundGrid(lo, hi) == <<lo, lo + (hi - lo) \div 3, lo + (hi - lo) \div 2, hi>>
(* the sample points of DTLZ position and shape variables: where cos and
   sin of the model are tabulated *)
PositionGrid == <<0, 4097, 5903, 1 * XUnit>>
ShapeGrid == <<0, 5000, 5500, 1 * XUnit>>

(* the sample points of column j of a batch for instance o; a column past
   the declared variables takes the points of the last one *)
Grid(o, j) ==
    IF ProblemOf(o.cls) \in DTLZClasses
    THEN IF j <= o.n_obj - 1 THEN PositionGrid ELSE ShapeGrid
    ELSE LET jj == IF j > Len(o.vars) THEN Len(o.vars) ELSE j
         IN  BoundGrid(o.vars[jj][1], o.vars[jj][2])

(* a row of M columns: column j at sample point a + p * (j - 1) *)
SampleRow(o, M, a, p) ==
    [j \in 1..M |-> Grid(o, j)[((a + p * (j - 1)) % 4) + 1]]

(* a batch of N rows of M columns, its first row at sample point a *)
Batch(o, N, M, a, p) == [r \in 1..N |-> SampleRow(o, M, a + r - 1, p)]

(* batches of the declared column count *)
Batches(o) == {Batch(o, N, o.n_var, 1, 1) : N \in 1..MaxRows}
(* one-row batches with one column fewer and one column more *)
Misshapen(o) == {Batch(o, 1, M, 1, 1) : M \in {m \in {o.n_var - 1, o.n_var + 1} : m >= 1}}

(* fidelity requests: every objective at option A, but for one objective f
   at option B; an option is a level <<l>>, or << >> for an objective the
   request leaves out *)
Levels == {-1, 0, 2, 4}
(* the keyword that requests a level for objective index h: Phi_f1 for the
   first objective *)
Keyword(h) == <<"Phi_f1", "Phi_f2", "Phi_f3", "Phi_f4", "Phi_f5", "Phi_f6">>[h + 1]
(* the label of objective index h in a scale table *)
Label(h) == <<"f1", "f2", "f3", "f4", "f5", "f6">>[h + 1]
Options == {<< >>} \cup {<<l>> : l \in Levels}
Request(n_obj, A, B, f) ==
    LET opt(h) == IF h = f THEN B ELSE A
        D == {h \in 0..(n_obj - 1) : opt(h) # << >>}
    IN  [kw \in {Keyword(h) : h \in D} |->
            opt(CHOOSE h \in D : Keyword(h) = kw)[1]]
Requests(o) ==
    {Request(o.n_obj, A, B, f) : A \in Options, B \in Options, f \in 0..(o.n_obj - 1)}
(* the requests with every objective at the same option *)
UniformRequests(o) == {Request(o.n_obj, A, A, 0) : A \in Options}

(* the (x, kwargs) of the evaluate_MF calls *)
MFCalls(o) ==
    (Batches(o) \X Requests(o)) \cup (Misshapen(o) \X UniformRequests(o))

(* the functions that draw random values, and the generator states tried *)
Drawing == {e_s1, e_s2, e_s3, e_s4, e_ins1, e_ins2}
SeedsFor(o) == IF o.err_fn \in Drawing THEN {0, 1} ELSE {0}

(* (n_obj, k, beta) of the DTLZ-based multi-fidelity instances *)
MFArgs == {<<Default_n_obj, 2, Default_beta>>, <<1, 2, 2>>, <<4, 1, 1>>}

Constructions ==
    {New(cls, fn, 0, 0, 0) :
        cls \in {c \in MFClasses : ProblemOf(c) \in REClasses}, fn \in ErrFns}
    \cup {New(cls, fn, a[1], a[2], a[3]) :
        cls \in {"MOMF3_7_1", "MOMF3_7_2"}, fn \in ErrFns, a \in MFArgs}

(* -------- the state machine -------- *)
NoCall == [op |-> "none"]

Init ==
    /\ objs \in [{1} -> Constructions]
    /\ selected = [i \in DOMAIN objs |-> objs[i].err_fn]
    /\ call = NoCall

(* prob.evaluate(x) *)
Evaluate(i, x) ==
    /\ call = NoCall
    /\ call' = [op |-> "evaluate", inst |-> i, x |-> x, ret |-> evaluate(objs[i], x)]
    /\ UNCHANGED <<objs, selected>>

(* prob.evaluate_MF(x, **kwargs) *)
EvaluateMF(i, x, kwargs, seed) ==
    /\ call = NoCall
    /\ objs[i].cls \in MFClasses
    /\ call' = [op |-> "evaluate_MF", inst |-> i, x |-> x, kwargs |-> kwargs,
                seed |-> seed, ret |-> evaluate_MF(objs[i], x, kwargs, seed)]
    /\ UNCHANGED <<objs, selected>>

(* prob.set_error_fn(err_fn) *)
SetErrorFn(i, fn) ==
    /\ call = NoCall
    /\ objs[i].cls \in MFClasses
    /\ objs' = set_error_fn(objs, i, fn)
    /\ selected' = [selected EXCEPT ![i] = fn]
    /\ UNCHANGED call

(* prob.get_bound_arrays() *)
GetBoundArrays(i) ==
    /\ call = NoCall
    /\ call' = [op |-> "get_bound_arrays", inst |-> i, ret |-> get_bound_arrays(objs[i])]
    /\ UNCHANGED <<objs, selected>>

(* the caller takes the result (or the exception) *)
Return ==
    /\ call # NoCall
    /\ call' = NoCall
    /\ UNCHANGED <<objs, selected>>

(* between calls *)
Idle == call = NoCall

Next ==
    \/ /\ Idle
       /\ \E i \in DOMAIN objs : \E x \in Batches(objs[i]) \cup Misshapen(objs[i]) :
             Evaluate(i, x)
    \/ /\ Idle
       /\ \E i \in DOMAIN objs : \E c \in MFCalls(objs[i]) :
             \E seed \in SeedsFor(objs[i]) : EvaluateMF(i, c[1], c[2], seed)
    \/ /\ Idle
       /\ \E i \in DOMAIN objs : \E fn \in ErrFns : SetErrorFn(i, fn)
    \/ /\ Idle
       /\ \E i \in DOMAIN objs : GetBoundArrays(i)
    \/ Return

Spec == Init /\ [][Next]_vars

(* -------- what the claims speak of -------- *)
IsMFCall == call.op = "evaluate_MF"
Callee == objs[call.inst]
(* the objectives of the called instance *)
Objectives == 0..(Callee.n_obj - 1)
RequestedAt(f) == Keyword(f) \in DOMAIN call.kwargs
LevelAt(f) == call.kwargs[Keyword(f)]
WellShaped == Cols(call.x) = Callee.n_var
(* the levels calibrated for the active error function of the callee *)
Calibrated ==
    IF FnName[Callee.err_fn] \in DOMAIN mf_def(Callee.cls)
    THEN DOMAIN mf_def(Callee.cls)[FnName[Callee.err_fn]].Phi
    ELSE {}
(* the random values drawn before objective f is degraded *)
DrawnBefore(f) ==
    IF Callee.err_fn \in Drawing
    THEN Rows(call.x) * Cardinality({h \in Objectives : h < f /\ RequestedAt(h) /\ LevelAt(h) > 0})
    ELSE 0

(* C1: evaluate_MF with level 0 for every objective returns, element for
   element, the matrix evaluate(x) returns, and calls no error function; on a
   batch of the declared column count it does return. *)
C1_LevelZeroIsEvaluate ==
    (IsMFCall /\ \A f \in Objectives : RequestedAt(f) /\ LevelAt(f) = 0)
    => /\ WellShaped => call.ret.ok
       /\ call.ret.ok => /\ call.ret.F = evaluate(Callee, call.x).F
                         /\ call.ret.trace = << >>

C1_Witness ==
    /\ IsMFCall
    /\ \A f \in Objectives : RequestedAt(f) /\ LevelAt(f) = 0
    /\ call.ret.ok
    /\ Rows(call.x) = 2
    /\ Callee.n_obj = 3

(* C2: an objective with no entry in the request comes back as NaN in every
   row of its column, whatever the other objectives are requested at. *)
C2_OmittedIsNaN ==
    (IsMFCall /\ call.ret.ok)
    => \A f \in Objectives :
          ~RequestedAt(f) => \A r \in 1..Rows(call.x) : call.ret.F[r][f + 1] = NaN

C2_Witness ==
    /\ IsMFCall
    /\ call.ret.ok
    /\ Rows(call.x) = 2
    /\ Callee.n_obj = 3
    /\ ~RequestedAt(1)
    /\ RequestedAt(0) /\ LevelAt(0) = 2
    /\ call.ret.F[2][2] = NaN
    /\ call.ret.F[2][1].t = "sum"

(* C3: for an objective f requested at a calibrated positive level L, column f
   is the high-fidelity column plus scale[E][f] * E(x_scaled, Phi[E][L]), both
   taken from the calibration row of the active error function E. *)
C3_DegradedColumn ==
    (IsMFCall /\ call.ret.ok)
    => \A f \in Objectives :
          (RequestedAt(f) /\ LevelAt(f) > 0)
          => /\ LevelAt(f) \in Calibrated
             /\ \A r \in 1..Rows(call.x) :
                   call.ret.F[r][f + 1] =
                      SumCell(evaluate(Callee, call.x).F[r][f + 1],
                              mf_def(Callee.cls)[FnName[Callee.err_fn]].scale[Label(f)],
                              CallErrFn(Callee.err_fn, ScaleBatch(Callee, call.x).F,
                                        mf_def(Callee.cls)[FnName[Callee.err_fn]].Phi[LevelAt(f)],
                                        call.seed, DrawnBefore(f)).e[r])

C3_Witness ==
    /\ IsMFCall
    /\ call.ret.ok
    /\ Callee.cls = "MOMF3_7_1"
    /\ Callee.err_fn = e_s3
    /\ Rows(call.x) = 2
    /\ RequestedAt(0) /\ LevelAt(0) = 4
    /\ RequestedAt(2) /\ LevelAt(2) = 2
    /\ call.ret.F[2][3].t = "sum"
    /\ call.ret.F[2][3].scale = <<12502, -2>>

(* C4: a requested level that is neither 0 nor calibrated for the active
   error function makes evaluate_MF fail. *)
C4_UncalibratedLevelFails ==
    (IsMFCall /\ \E f \in Objectives :
                    RequestedAt(f) /\ LevelAt(f) # 0 /\ LevelAt(f) \notin Calibrated)
    => ~call.ret.ok

(* C5: a batch whose column count is not n_var makes evaluate and
   evaluate_MF fail. *)
C5_ShapeMismatchFails ==
    (call.op \in {"evaluate", "evaluate_MF"} /\ ~WellShaped) => ~call.ret.ok

(* C6: whichever error function is active, evaluate_MF on a batch of the
   declared shape, with every objective of a class's scale tables requested at
   level 2 (calibrated in every row of every table), returns an N x O matrix
   with the noise added. *)
C6_EveryErrorFunctionUsable ==
    (/\ IsMFCall
     /\ WellShaped
     /\ Callee.n_obj <= 3
     /\ \A f \in Objectives : RequestedAt(f) /\ LevelAt(f) = 2)
    => /\ call.ret.ok
       /\ Len(call.ret.F) = Rows(call.x)
       /\ \A r \in 1..Rows(call.x) :
             /\ Len(call.ret.F[r]) = Callee.n_obj
             /\ \A f \in Objectives : call.ret.F[r][f + 1].t = "sum"

(* -------- two instances -------- *)
(* the instances and calls of the specification of two instances: a class
   built twice or two classes, each with the default error function or with
   err_fn=e_s2, any error function being selected later; evaluate_MF on
   one batch per row count, with every objective or only the first one at
   level 2; evaluate on those batches and on misshapen ones; get_bound_arrays *)
IsoClasses == {"MOMF2_4_1a", "MOMF3_4_1"}
IsoConstructions == {New(cls, fn, 0, 0, 0) : cls \in IsoClasses, fn \in {e_r1, e_s2}}
IsoRequests(o) == {Request(o.n_obj, <<2>>, <<2>>, 0), Request(o.n_obj, << >>, <<2>>, 0)}

InitIso ==
    /\ objs \in [{1, 2} -> IsoConstructions]
    /\ selected = [i \in DOMAIN objs |-> objs[i].err_fn]
    /\ call = NoCall

NextIso ==
    \/ /\ Idle
       /\ \E i \in DOMAIN objs : \E x \in Batches(objs[i]) :
             \E kwargs \in IsoRequests(objs[i]) : \E seed \in SeedsFor(objs[i]) :
                EvaluateMF(i, x, kwargs, seed)
    \/ /\ Idle
       /\ \E i \in DOMAIN objs : \E fn \in ErrFns : SetErrorFn(i, fn)
    \/ /\ Idle
       /\ \E i \in DOMAIN objs : \E x \in Batches(objs[i]) \cup Misshapen(objs[i]) :
             Evaluate(i, x)
    \/ /\ Idle
       /\ \E i \in DOMAIN objs : GetBoundArrays(i)
    \/ Return

SpecIso == InitIso /\ [][NextIso]_vars

(* C7: every evaluate_MF call reads the calibration row of, and calls, the
   error function last selected on the called instance (the constructor's when
   none was), so the row and the function never belong to different error
   functions; and no instance's active function is another's selection. *)
C7_ActiveFunctionPerInstance ==
    /\ \A i \in DOMAIN objs : objs[i].err_fn = selected[i]
    /\ IsMFCall =>
          \A j \in 1..Len(call.ret.trace) :
             /\ call.ret.trace[j].fn = selected[call.inst]
             /\ call.ret.trace[j].row = FnName[selected[call.inst]]

C7_Witness ==
    /\ IsMFCall
    /\ call.inst = 2
    /\ objs[1].cls = objs[2].cls
    /\ objs[1].err_fn = e_s2
    /\ selected[2] = e_r3
    /\ call.ret.ok
    /\ Len(call.ret.trace) = 2

(* -------- one batch, two problems -------- *)
(* (n_obj, k, beta) of the DTLZ instances: every combination within the
   bounds, and the defaults *)
FnArgs ==
    {<<n, k, b>> : n \in 1..MaxObj, k \in 1..MaxK, b \in {1, 2}}
    \cup {<<Default_n_obj, Default_k, Default_beta>>}

(* two problems over the same variables: an RE problem and a multi-fidelity
   class over it, or DTLZ2 and InvertedDTLZ2 (or the multi-fidelity classes
   over them) built with the same arguments *)
FnPairs ==
    {<<New(ProblemOf(cls), NoAttr, 0, 0, 0), New(cls, e_r1, 0, 0, 0)>> :
        cls \in {c \in MFClasses : ProblemOf(c) \in REClasses}}
    \cup {<<New("DTLZ2", NoAttr, a[1], a[2], a[3]),
            New("InvertedDTLZ2", NoAttr, a[1], a[2], a[3])>> : a \in FnArgs}
    \cup {<<New("MOMF3_7_1", e_r1, a[1], a[2], a[3]),
            New("MOMF3_7_2", e_r1, a[1], a[2], a[3])>> : a \in FnArgs}

(* the batches of the declared column count: 1..MaxRows rows, the first at
   any sample point, the columns at the same point or at successive ones *)
FnBatches(o) ==
    {Batch(o, N, o.n_var, a, p) : N \in 1..MaxRows, a \in 0..3, p \in {0, 1}}

(* a result not computed yet *)
Pending == [ok |-> FALSE, F |-> << >>, err |-> "pending"]

InitFn ==
    /\ objs \in FnPairs
    /\ selected = [i \in DOMAIN objs |-> objs[i].err_fn]
    /\ call \in {[op |-> "held", x |-> x, F |-> <<Pending, Pending>>, xs |-> Pending] :
                    x \in FnBatches(objs[1])}

(* F = objs[i].evaluate(x) on the held batch *)
EvaluateHeld(i) ==
    /\ call.F[i] = Pending
    /\ call' = [call EXCEPT !.F[i] = evaluate(objs[i], call.x)]
    /\ UNCHANGED <<objs, selected>>

(* lines 97-98 of evaluate_MF on the held batch, with the bounds of objs[i] *)
ScaleHeld(i) ==
    /\ objs[i].cls \in MFClasses
    /\ call.xs = Pending
    /\ call' = [call EXCEPT !.xs = ScaleBatch(objs[i], call.x)]
    /\ UNCHANGED <<objs, selected>>

NextFn ==
    \/ \E i \in DOMAIN objs : EvaluateHeld(i)
    \/ \E i \in DOMAIN objs : ScaleHeld(i)

SpecFn == InitFn /\ [][NextFn]_vars

IsHeld == call.op = "held"
Evaluated(i) == IsHeld /\ call.F[i] # Pending
Scaled == IsHeld /\ call.xs # Pending
IsDTLZPair ==
    /\ ProblemOf(objs[1].cls) = "DTLZ2"
    /\ ProblemOf(objs[2].cls) = "InvertedDTLZ2"

(* C8: evaluate(x) on a batch of N >= 1 rows and n_var columns returns a
   matrix of exactly N rows and n_obj columns, n_obj being the instance's
   declared objective count, for the RE problems and for DTLZ2 and
   InvertedDTLZ2 with any n_obj >= 1 and k >= 1. *)
C8_EvaluateShape ==
    \A i \in DOMAIN objs :
       Evaluated(i) =>
          /\ call.F[i].ok
          /\ Rows(call.F[i].F) = Rows(call.x)
          /\ \A r \in 1..Rows(call.x) : Len(call.F[i].F[r]) = objs[i].n_obj

C8_Witness ==
    /\ Evaluated(1) /\ Evaluated(2)
    /\ IsDTLZPair
    /\ objs[2].n_obj = MaxObj /\ objs[2].k = MaxK /\ objs[2].beta = 2
    /\ Rows(call.x) = MaxRows
    /\ Len(call.F[2].F[MaxRows]) = MaxObj

(* C9: the scaling of evaluate_MF maps every entry within its column's
   declared bounds into [-1, 1], an entry at the lower bound to exactly -1
   and an entry at the upper bound to exactly 1. *)
C9_ScaledIntoUnitBox ==
    Scaled =>
       /\ call.xs.ok
       /\ \A r \in 1..Rows(call.x) : \A j \in 1..Cols(call.x) :
            /\ RLe(RInt(-1), call.xs.F[r][j]) /\ RLe(call.xs.F[r][j], RInt(1))
            /\ call.x[r][j] = objs[2].vars[j][1] => call.xs.F[r][j] = RInt(-1)
            /\ call.x[r][j] = objs[2].vars[j][2] => call.xs.F[r][j] = RInt(1)

C9_Witness ==
    /\ Scaled
    /\ ProblemOf(objs[2].cls) = "RE2_4_1"
    /\ call.x[1][1] = objs[2].vars[1][1] /\ call.xs.F[1][1] = RInt(-1)
    /\ call.x[1][4] = objs[2].vars[4][2] /\ call.xs.F[1][4] = RInt(1)
    /\ call.xs.F[1][2] \notin {RInt(-1), RInt(1)}

(* C10: for DTLZ2 and InvertedDTLZ2 built with the same (n_obj, k, beta) and
   evaluated on the same batch, column i of the inverted result is (1 + g)
   minus column i of the DTLZ2 result, g being the row's value of g; both are
   (1 + g) times s_i, respectively 1 - s_i, of the same s. *)
C10_InvertedIsComplement ==
    (IsDTLZPair /\ Evaluated(1) /\ Evaluated(2)) =>
       LET n_obj == objs[1].n_obj
           G == g(SliceFrom(call.x, n_obj - 1))
           S == s(objs[1], SliceTo(call.x, n_obj - 1)).F
       IN  \A r \in 1..Rows(call.x) : \A i \in 1..n_obj :
              /\ call.F[2].F[r][i].v
                    = RSub(RAdd(RInt(1), G[r]), call.F[1].F[r][i].v)
              /\ call.F[1].F[r][i].v = RMul(RAdd(RInt(1), G[r]), S[r][i])
              /\ call.F[2].F[r][i].v
                    = RMul(RAdd(RInt(1), G[r]), RSub(RInt(1), S[r][i]))

C10_Witness ==
    /\ IsDTLZPair /\ Evaluated(1) /\ Evaluated(2)
    /\ objs[1].n_obj = 3 /\ objs[1].beta = 2
    /\ Rows(call.x) = 2
    /\ call.F[1].F[2][2].v \notin {RInt(0), call.F[1].F[2][1].v}
    /\ call.F[2].F[2][2].v \notin {RInt(0), call.F[1].F[2][2].v}

(* -------- the error functions on their own -------- *)
(* the entries of a normalized batch, and the batches of N rows and M
   columns: row r, column j at entry a + r + p * j *)
UnitGrid == <<RInt(-1), Rat(-1, 2), RInt(0), Rat(1, 3), RInt(1)>>
UnitBatch(N, M, a, p) ==
    [r \in 1..N |-> [j \in 1..M |-> UnitGrid[((a + r + p * j) % Len(UnitGrid)) + 1]]]
UnitBatches ==
    {UnitBatch(N, M, a, p) : N \in 1..MaxRows, M \in 1..MaxCols, a \in 0..4, p \in {0, 1}}

(* fidelity parameters: the ends of the range and the values around which a
   draw of the table starts to exceed a spike probability *)
PhiSamples == {0, 5, 6, 593, 594, 2895, 2896, 5000, 5001, 10000}

NoisePending == NoiseRaise("pending")

(* the calls e = fn(x, phi), with the generator in state seed *)
ErrCalls ==
    {[op |-> "err_fn", fn |-> fn, x |-> x, phi |-> phi, seed |-> seed, ret |-> NoisePending] :
        fn \in ErrFns, x \in UnitBatches, phi \in PhiSamples, seed \in 0..(Len(DrawTable) - 1)}

(* the calls e = e_r3(x, phi) on one batch, for every phi of the range *)
ErrSweep ==
    {[op |-> "err_fn", fn |-> e_r3, x |-> UnitBatch(1, 1, 0, 0), phi |-> phi, seed |-> 0,
      ret |-> NoisePending] : phi \in 0..FullFidelity}

InitErr ==
    /\ objs = << >>
    /\ selected = << >>
    /\ call \in {c \in ErrCalls : c.fn \in Drawing \/ c.seed = 0} \cup ErrSweep

(* e = fn(x, phi) *)
CallErr ==
    /\ call.ret = NoisePending
    /\ call' = [call EXCEPT !.ret = CallErrFn(call.fn, call.x, call.phi, call.seed, 0)]
    /\ UNCHANGED <<objs, selected>>

NextErr == CallErr

SpecErr == InitErr /\ [][NextErr]_vars

IsErrCall == call.op = "err_fn"
ErrReturned == IsErrCall /\ call.ret # NoisePending
(* the draw of row r of the call *)
DrawOf(r) == Draw(call.seed, r - 1)
(* r > p for the instability functions *)
ExceedsSpike(r) ==
    IF call.fn = e_ins1
    THEN ~RLe(DrawOf(r), RMul(Rat(1, 10), RSub(RInt(1), Rat(call.phi, 10000))))
    ELSE GtExpIns2(DrawOf(r), call.phi)

(* C11: each noise value e_ins1 and e_ins2 return is exactly 0 or exactly
   10 * d: 10 * d when the row's draw r does not exceed the spike probability
   p, and 0 when r > p. *)
C11_InstabilityIsSpikeOrZero ==
    (ErrReturned /\ call.fn \in {e_ins1, e_ins2})
    => /\ call.ret.ok
       /\ Len(call.ret.e) = Rows(call.x)
       /\ \A r \in 1..Rows(call.x) :
             /\ call.ret.e[r].v \in {RInt(0), RInt(10 * Cols(call.x))}
             /\ ExceedsSpike(r) => call.ret.e[r].v = RInt(0)
             /\ ~ExceedsSpike(r) => call.ret.e[r].v = RInt(10 * Cols(call.x))

C11_Witness ==
    /\ ErrReturned
    /\ call.fn = e_ins1
    /\ call.phi = 5000
    /\ Rows(call.x) = 2 /\ Cols(call.x) = 2
    /\ DrawOf(1) = Rat(1, 20) /\ call.ret.e[1].v = RInt(20)
    /\ DrawOf(2) = Rat(0, 1) /\ call.ret.e[2].v = RInt(20)

(* the coefficient of sigma = 0.1 * nu and the atom nu is a multiple of *)
SigmaCoef == Rat(1, 10)
NuAtom ==
    IF call.fn \in {e_s1, e_s3} THEN Linear(call.phi) ELSE Exp(Rat(-5 * call.phi, 10000))
(* the coefficient of mu for row r *)
MuCoef(r) ==
    IF call.fn \in {e_s1, e_s2} THEN RInt(0)
    ELSE RMul(RDiv(SigmaCoef, RInt(Cols(call.x))),
              RSum([j \in 1..Cols(call.x) |-> RSub(RInt(1), RAbs(call.x[r][j]))]))

(* C12: for e_s1..e_s4, phi in 0..10000 and a batch with entries in [-1, 1],
   each row's noise is between mu and sigma + mu, and so between 0 and
   2 * sigma; both are multiples of nu >= 0. *)
C12_StochasticWithinBounds ==
    (ErrReturned /\ call.fn \in {e_s1, e_s2, e_s3, e_s4})
    => /\ call.ret.ok
       /\ Len(call.ret.e) = Rows(call.x)
       /\ \A r \in 1..Rows(call.x) :
             /\ call.ret.e[r].q.u = NuAtom \/ call.ret.e[r].q.c = RInt(0)
             /\ RLe(MuCoef(r), call.ret.e[r].q.c)
             /\ RLe(call.ret.e[r].q.c, RAdd(SigmaCoef, MuCoef(r)))
             /\ RLe(RInt(0), call.ret.e[r].q.c)
             /\ RLe(call.ret.e[r].q.c, RMul(RInt(2), SigmaCoef))

C12_Witness ==
    /\ ErrReturned
    /\ call.fn = e_s3
    /\ Rows(call.x) = 2 /\ Cols(call.x) = 2
    /\ call.x[1] = <<RInt(0), RInt(0)>>
    /\ DrawOf(1) = Rat(9, 10)
    /\ call.ret.e[1].q.c = Rat(19, 100)

(* -------- frame -------- *)
(* the bounds an instance's class declares *)
DeclaredVars(o) ==
    IF ProblemOf(o.cls) \in REClasses THEN RE_vars(ProblemOf(o.cls))
    ELSE [n \in 1..(o.n_obj + o.k - 1) |-> <<0, 1 * XUnit>>]

(* C13: no sequence of evaluate, evaluate_MF, set_error_fn and
   get_bound_arrays calls, failed calls included, changes a calibration table
   or a declared bound; a step changes at most the active error function of
   one instance, and the steps of evaluate, evaluate_MF and get_bound_arrays
   (the call and its return) change no instance at all. *)
C13_TablesAndBoundsFixed ==
    /\ [](\A i \in DOMAIN objs :
            /\ objs[i].mf_def = mf_def(objs[i].cls)
            /\ objs[i].vars = DeclaredVars(objs[i]))
    /\ [][/\ \A i \in DOMAIN objs :
               [objs'[i] EXCEPT !.err_fn = objs[i].err_fn] = objs[i]
          /\ call' # call => objs' = objs
          /\ \E i \in DOMAIN objs : \A j \in DOMAIN objs \ {i} : objs'[j] = objs[j]]_vars

C13_Witness ==
    /\ IsMFCall
    /\ ~call.ret.ok /\ call.ret.err = "KeyError"
    /\ call.inst = 1
    /\ selected[1] = e_ins1
    /\ objs[2].err_fn = e_r2
    /\ objs[1].mf_def = mf_def(objs[1].cls)
    /\ objs[1].vars = DeclaredVars(objs[1])

(* -------- a single objective -------- *)
(* C14: with n_obj = 1 the position sub-vector x[:, :0] is empty, s has the
   single column 1, DTLZ2 returns the single column 1 + g (g over all the
   columns of x) and InvertedDTLZ2 the single column 0, for any k and beta. *)
C14_SingleObjective ==
    (IsHeld /\ IsDTLZPair /\ objs[1].n_obj = 1)
    => /\ Cols(SliceTo(call.x, objs[1].n_obj - 1)) = 0
       /\ \A r \in 1..Rows(call.x) :
             /\ s(objs[1], SliceTo(call.x, 0)).F[r] = <<RInt(1)>>
             /\ Evaluated(1) =>
                   call.F[1].F[r] = <<NumCell(RAdd(RInt(1), g(call.x)[r]))>>
             /\ Evaluated(2) => call.F[2].F[r] = <<NumCell(RInt(0))>>

C14_Witness ==
    /\ IsDTLZPair /\ objs[1].n_obj = 1 /\ objs[1].k = MaxK /\ objs[1].beta = 2
    /\ Evaluated(1) /\ Evaluated(2)
    /\ Rows(call.x) = MaxRows
    /\ call.F[1].F[1][1].v \notin {RInt(0), RInt(1)}
    /\ call.F[2].F[1][1].v = RInt(0)

(* -------- the calibration tables -------- *)
(* C15: in every row of every class's calibration table the levels are the
   consecutive integers 1..L, Phi[level] is within 0..10000 and strictly
   decreases as the level increases. *)
C15_PhiDecreasesWithLevel ==
    \A i \in DOMAIN objs : \A name \in DOMAIN objs[i].mf_def :
       LET Phi == objs[i].mf_def[name].Phi
           L == Cardinality(DOMAIN Phi)
       IN  /\ L >= 1
           /\ DOMAIN Phi = 1..L
           /\ \A l \in 1..L :
                 /\ Phi[l] \in 0..FullFidelity
                 /\ l < L => Phi[l] > Phi[l + 1]

C15_Witness ==
    /\ IsMFCall
    /\ call.ret.ok
    /\ Callee.cls = "MOMF3_7_2"
    /\ Callee.err_fn = e_s4
    /\ RequestedAt(0) /\ LevelAt(0) = 4
    /\ DOMAIN Callee.mf_def.e_s4.Phi = 1..4
    /\ Callee.mf_def.e_s4.Phi[1] > Callee.mf_def.e_s4.Phi[4]
    /\ call.ret.F[1][1].e.q.u = Exp(Rat(-5 * Callee.mf_def.e_s4.Phi[4], 10000))

(* -------- any number of objectives -------- *)
(* C17: for a MOMF3_7_1 or MOMF3_7_2 instance built with any n_obj >= 1,
   k >= 1 and beta, evaluate_MF with a calibrated level for each objective
   returns an N x O matrix, and every objective has a scale factor in the row
   of the active error function. *)
C17_AnyObjectiveCountCalibrated ==
    (/\ IsMFCall
     /\ Callee.cls \in {"MOMF3_7_1", "MOMF3_7_2"}
     /\ WellShaped
     /\ \A f \in Objectives : RequestedAt(f) /\ LevelAt(f) \in Calibrated)
    => /\ call.ret.ok
       /\ Len(call.ret.F) = Rows(call.x)
       /\ \A r \in 1..Rows(call.x) : Len(call.ret.F[r]) = Callee.n_obj
       /\ \A f \in Objectives :
             Label(f) \in DOMAIN mf_def(Callee.cls)[FnName[Callee.err_fn]].scale

(* -------- the decay of e_r3 -------- *)
(* theta of the returned noise of e_r3 *)
ThetaReturned == call.ret.e[1].theta.c

(* C16: over the integers phi in 0..10000, theta of e_r3 is within [0, 1],
   is 1 at phi = 0 and 0 from phi = 9000 on, and is never above theta at
   phi - 1: it never rises, in particular not where one segment hands over
   to the next. *)
C16_ThetaNeverRises ==
    (ErrReturned /\ call.fn = e_r3 /\ call.phi \in 0..FullFidelity)
    => /\ BLe(F_0, ThetaReturned) /\ BLe(ThetaReturned, F_1)
       /\ call.phi = 0 => ThetaReturned = F_1
       /\ call.phi >= 9000 => ThetaReturned = F_0
       /\ call.phi > 0 => BLe(ThetaReturned, e_r3_theta(call.phi - 1))
====
